---- MODULE Spec2Model ----
(***************************************************************************)
(* Checklist / CAP service (src/server.py): request handlers that map HTTP *)
(* calls to SQL statements run on pooled psycopg2 connections.             *)
(*                                                                         *)
(* The store is modelled as three tables of rows.  Each handler runs its   *)
(* statements in the implicit transaction psycopg2 opens on the first      *)
(* execute(); statements of concurrent handlers interleave under           *)
(* PostgreSQL's default READ COMMITTED isolation: a statement sees the     *)
(* rows committed when it starts, and waits on a row another transaction   *)
(* has changed until that transaction ends.                                *)
(*                                                                         *)
(* The handlers name no constraint of the schema and handle no conflict,   *)
(* so the tables are modelled as plain heaps of rows: an INSERT adds a     *)
(* row whatever rows exist.  A statement the store refuses (a constraint   *)
(* violation among other faults) is a storage fault, which any statement   *)
(* may raise.                                                              *)
(***************************************************************************)
EXTENDS Integers, Sequences, FiniteSets, TLC

(* ------------------------------------------------------------------ *)
(* Bounds of the model                                                  *)
(* ------------------------------------------------------------------ *)
\* concurrent handler threads
NumHandlers == 2
\* requests served in one behaviour (also the range of the server clock)
MaxRequests == 2
\* longest list of steps a replace request carries in the sequential runs
MaxSteps == 3

\* DB_POOL_MAX default
POOL_MAX == 10

Handlers == 1..NumHandlers

(* ------------------------------------------------------------------ *)
(* Optional values: None is the empty tuple, Some(v) a one-tuple        *)
(* ------------------------------------------------------------------ *)
None == << >>
Some(v) == << v >>
IsSome(o) == Len(o) = 1
Val(o) == o[1]

(* ------------------------------------------------------------------ *)
(* Text is a sequence of characters; dates are <<year, month, day>>     *)
(* ------------------------------------------------------------------ *)
Digits == {"0", "1", "2", "3", "4", "5", "6", "7", "8", "9"}
DigitVal == ("0" :> 0) @@ ("1" :> 1) @@ ("2" :> 2) @@ ("3" :> 3) @@ ("4" :> 4)
            @@ ("5" :> 5) @@ ("6" :> 6) @@ ("7" :> 7) @@ ("8" :> 8) @@ ("9" :> 9)

RECURSIVE ToInt(_)
ToInt(s) == IF s = << >> THEN 0
            ELSE 10 * ToInt(SubSeq(s, 1, Len(s) - 1)) + DigitVal[s[Len(s)]]

\* strptime's %d: 3[0-1] | [1-2]\d | 0[1-9] | [1-9] | " "[1-9]
MatchesDay(s) ==
    \/ Len(s) = 2 /\ s[1] = "3" /\ s[2] \in {"0", "1"}
    \/ Len(s) = 2 /\ s[1] \in {"1", "2"} /\ s[2] \in Digits
    \/ Len(s) = 2 /\ s[1] \in {"0", " "} /\ s[2] \in Digits \ {"0"}
    \/ Len(s) = 1 /\ s[1] \in Digits \ {"0"}

\* strptime's %m: 1[0-2] | 0[1-9] | [1-9]
MatchesMonth(s) ==
    \/ Len(s) = 2 /\ s[1] = "1" /\ s[2] \in {"0", "1", "2"}
    \/ Len(s) = 2 /\ s[1] = "0" /\ s[2] \in Digits \ {"0"}
    \/ Len(s) = 1 /\ s[1] \in Digits \ {"0"}

\* strptime's %Y: \d\d\d\d
MatchesYear(s) == Len(s) = 4 /\ \A i \in 1..4 : s[i] \in Digits

DayValue(s) == IF s[1] = " " THEN DigitVal[s[2]] ELSE ToInt(s)

IsLeap(y) == (y % 4 = 0) /\ ((y % 100 # 0) \/ (y % 400 = 0))

DaysInMonth(y, m) ==
    IF m = 2 THEN (IF IsLeap(y) THEN 29 ELSE 28)
    ELSE IF m \in {4, 6, 9, 11} THEN 30 ELSE 31

\* datetime's own range check: year >= MINYEAR, day within the month
ValidDate(y, m, d) == y >= 1 /\ m \in 1..12 /\ d >= 1 /\ d <= DaysInMonth(y, m)

\* the places (i, j) of the two dots that split s as day "." month "." year
DotSplits(s) ==
    {ij \in (1..Len(s)) \X (1..Len(s)) :
        /\ ij[1] < ij[2]
        /\ s[ij[1]] = "." /\ s[ij[2]] = "."
        /\ MatchesDay(SubSeq(s, 1, ij[1] - 1))
        /\ MatchesMonth(SubSeq(s, ij[1] + 1, ij[2] - 1))
        /\ MatchesYear(SubSeq(s, ij[2] + 1, Len(s)))}

\* _parse_ddmmyyyy: an optional text to an optional date; ValueError gives None
parse_ddmmyyyy(s) ==
    IF (~IsSome(s)) \/ Val(s) = << >> THEN None
    ELSE LET t == Val(s)
             sp == DotSplits(t)
         IN  IF sp = {} THEN None
             ELSE LET ij == CHOOSE x \in sp : TRUE
                      d == DayValue(SubSeq(t, 1, ij[1] - 1))
                      m == ToInt(SubSeq(t, ij[1] + 1, ij[2] - 1))
                      y == ToInt(SubSeq(t, ij[2] + 1, Len(t)))
                  IN  IF ValidDate(y, m, d) THEN Some(<<y, m, d>>) ELSE None

\* date < date, as Python and SQL order calendar dates
DateLess(a, b) ==
    \/ a[1] < b[1]
    \/ a[1] = b[1] /\ a[2] < b[2]
    \/ a[1] = b[1] /\ a[2] = b[2] /\ a[3] < b[3]

\* date.isoformat(): YYYY-MM-DD
Pad(n, w) == [i \in 1..w |->
                 CHOOSE c \in Digits : DigitVal[c] = (n \div (10 ^ (w - i))) % 10]
isoformat(d) == Pad(d[1], 4) \o <<"-">> \o Pad(d[2], 2) \o <<"-">> \o Pad(d[3], 2)

(* ------------------------------------------------------------------ *)
(* Request bodies drawn on by the runs                                  *)
(* ------------------------------------------------------------------ *)
Text_05_01_2024 == <<"0", "5", ".", "0", "1", ".", "2", "0", "2", "4">>
Text_20_01_2024 == <<"2", "0", ".", "0", "1", ".", "2", "0", "2", "4">>
Text_31_02_2024 == <<"3", "1", ".", "0", "2", ".", "2", "0", "2", "4">>

\* item numbers the requests address in checklist 1, and the numbers of the items
\* the store holds: item 2 is addressed and missing, item 3 is never addressed
Numbers == {1, 2}
SeededNumbers == {1, 3}
Keys == {1} \X Numbers

\* OperatorUpdate
OperatorBodies ==
    { [status |-> "s1", feedback |-> "f1", evidence_path |-> e] :
        e \in {None, Some("e1")} }

\* InspectorUpdate
InspectorBodies ==
    { [acceptance |-> None, feedback |-> None],
      [acceptance |-> Some("a1"), feedback |-> None],
      [acceptance |-> Some("a1"), feedback |-> Some("g1")] }

\* CapUpsert
CapBodies ==
    { [description |-> "d1", owner |-> None, target_date |-> Some(Text_05_01_2024)],
      [description |-> "d2", owner |-> Some("o1"), target_date |-> Some(Text_31_02_2024)],
      [description |-> "", owner |-> None, target_date |-> None] }

\* CapStep items; step_no is what the caller sent
StepItems ==
    { [step_no |-> 99, step_text |-> "a", target_date |-> Some(Text_05_01_2024)],
      [step_no |-> 1, step_text |-> "b", target_date |-> None],
      [step_no |-> 2, step_text |-> "c", target_date |-> Some(Text_20_01_2024)] }

\* lists of distinct items, up to MaxSteps long
StepLists ==
    UNION { { l \in [1..n -> StepItems] : \A i, j \in 1..n : l[i] = l[j] => i = j } :
            n \in 0..MaxSteps }

Req(op, c, n, body) == [op |-> op, checklist_id |-> c, number |-> n, body |-> body]
NoBody == [none |-> TRUE]

ReadOps == {"get_checklist_items", "get_cap", "get_cap_steps", "compute_cap_final_date"}
WriteOps == {"update_operator", "update_inspector", "upsert_cap", "replace_cap_steps"}

\* the table each handler's statements address
TableOf(op) ==
    CASE op \in {"get_checklist_items", "update_operator", "update_inspector"}
            -> "checklist_items"
      [] op \in {"get_cap", "upsert_cap"} -> "caps"
      [] OTHER -> "cap_steps"

\* requests of the sequential runs
SeqRequests ==
    { Req("get_checklist_items", 1, 0, NoBody) }
    \cup { Req("update_operator", 1, n, b) : n \in Numbers, b \in OperatorBodies }
    \cup { Req("update_inspector", 1, 1, b) : b \in InspectorBodies }
    \cup { Req("update_inspector", 1, 2, [acceptance |-> Some("a1"), feedback |-> None]) }
    \cup { Req(op, 1, n, NoBody) :
             op \in {"get_cap", "get_cap_steps", "compute_cap_final_date"},
             n \in Numbers }
    \cup { Req("upsert_cap", 1, n, b) : n \in Numbers, b \in CapBodies }
    \cup { Req("replace_cap_steps", 1, 1, [steps |-> l]) : l \in StepLists }
    \cup { Req("replace_cap_steps", 1, 2, [steps |-> l]) :
             l \in {x \in StepLists : Len(x) <= 1} }

(* ------------------------------------------------------------------ *)
(* State                                                                *)
(* ------------------------------------------------------------------ *)
VARIABLES
    checklist_items,    \* table: committed rows
    caps,               \* table: committed rows
    cap_steps,          \* table: committed rows
    now,                \* server clock; ticks when a request arrives
    pc,                 \* handler -> its place in the handler's code
    req,                \* handler -> the request it serves
    resp,               \* handler -> the response it has produced
    cur,                \* handler -> its cursor: rowcount, and the loop index idx
    conn,               \* handler -> the connection it holds and its transaction
    before,             \* handler -> the committed tables when its request arrived
    last_replace        \* (checklist_id, item_number) -> the length of the list of
                        \* the replace_cap_steps call that committed last

vars == <<checklist_items, caps, cap_steps, now,
          pc, req, resp, cur, conn, before, last_replace>>
tables == <<checklist_items, caps, cap_steps>>

NoReq == [op |-> "none"]
NoResp == [status |-> 0]
NoCur == [rowcount |-> 0, idx |-> 0]
\* held: taken from the pool; status: psycopg2's transaction status;
\* gone: rows this transaction deleted or superseded (it holds their locks);
\* put: the new versions of the rows it updated; ins: the rows it inserted, in
\* order (they get their row ids when committed); snap: the rows a waiting
\* statement targets;
\* began: the transaction's start time (CURRENT_TIMESTAMP)
NoConn == [held |-> FALSE, status |-> "idle", began |-> 0,
           gone |-> {}, put |-> {}, ins |-> << >>, snap |-> {}]
FreshConn == [NoConn EXCEPT !.held = TRUE]

NoTables == [checklist_items |-> {}, caps |-> {}, cap_steps |-> {}]
Committed == [checklist_items |-> checklist_items, caps |-> caps,
              cap_steps |-> cap_steps]

SeedItems ==
    { [rid |-> n, checklist_id |-> 1, number |-> n,
       reference |-> "ref", question |-> "q",
       status |-> None, evidence |-> Some("e0"), operator_feedback |-> None,
       acceptance |-> Some("a0"), inspector_feedback |-> Some("g0")] :
      n \in SeededNumbers }

Init ==
    /\ checklist_items = SeedItems
    /\ caps = {}
    /\ cap_steps = {}
    /\ now = 0
    /\ pc = [p \in Handlers |-> "idle"]
    /\ req = [p \in Handlers |-> NoReq]
    /\ resp = [p \in Handlers |-> NoResp]
    /\ cur = [p \in Handlers |-> NoCur]
    /\ conn = [p \in Handlers |-> NoConn]
    /\ before = [p \in Handlers |-> NoTables]
    /\ last_replace = [k \in Keys |-> 0]

(* ------------------------------------------------------------------ *)
(* The store as a handler's statement sees it                           *)
(* ------------------------------------------------------------------ *)
Table(name) ==
    CASE name = "checklist_items" -> checklist_items
      [] name = "caps" -> caps
      [] OTHER -> cap_steps

\* faulty variant of Matches: a WHERE clause that names the checklist only
MatchesChecklistOnly(p, row) == row.checklist_id = req[p].checklist_id
\* the rows of the handler's table its WHERE clause matches
Matches(p, row) ==
    /\ row.checklist_id = req[p].checklist_id
    /\ IF TableOf(req[p].op) = "checklist_items"
       THEN row.number = req[p].number
       ELSE row.item_number = req[p].number

\* rows locked by the open transactions of the other handlers on p's table
LockedByOthers(p) ==
    UNION { conn[q].gone :
              q \in {h \in Handlers : h # p /\ req[h].op # "none"
                                      /\ TableOf(req[h].op) = TableOf(req[p].op)} }

\* row ids a row committed by p must not take: those of the rows that stay,
\* and those a waiting statement of another handler still refers to
UsedRids(p) ==
    { r.rid : r \in { x \in Table(TableOf(req[p].op)) : x.rid \notin conn[p].gone } }
    \cup { r.rid : r \in conn[p].put }
    \cup UNION { conn[q].snap :
                   q \in {h \in Handlers : h # p /\ req[h].op # "none"
                            /\ TableOf(req[h].op) = TableOf(req[p].op)} }

\* the i-th smallest row id not in used
NthFree(used, i) ==
    CHOOSE n \in 1..(Cardinality(used) + i) :
        n \notin used /\ Cardinality({ m \in 1..n : m \notin used }) = i

\* the committed table after the changes c of p's transaction are applied
Apply(table, p, c) ==
    { r \in table : r.rid \notin c.gone }
    \cup c.put
    \cup { [rid |-> NthFree(UsedRids(p), i)] @@ c.ins[i] : i \in 1..Len(c.ins) }

(* ------------------------------------------------------------------ *)
(* Acquiring and releasing the connection                               *)
(* ------------------------------------------------------------------ *)
\* a request arrives and the thread pool hands it to its first free thread
Arrives(p) ==
    /\ pc[p] = "idle"
    /\ \A q \in Handlers : q < p => pc[q] # "idle"
    /\ now < MaxRequests

\* get_conn succeeds: the handler enters its try block holding a connection
GetConn(p, r) ==
    /\ Arrives(p)
    /\ Cardinality({q \in Handlers : conn[q].held}) < POOL_MAX
    /\ now' = now + 1
    /\ req' = [req EXCEPT ![p] = r]
    /\ conn' = [conn EXCEPT ![p] = FreshConn]
    /\ pc' = [pc EXCEPT ![p] = "try"]
    /\ before' = [before EXCEPT ![p] = Committed]
    /\ UNCHANGED <<tables, last_replace, resp, cur>>

\* faulty variant of GetConnFail: get_conn() called inside the try block, so that
\* the failure runs the handler's finally block and its put_conn
GetConnFailInsideTry(p, r) ==
    /\ Arrives(p)
    /\ now' = now + 1
    /\ req' = [req EXCEPT ![p] = r]
    /\ resp' = [resp EXCEPT ![p] = [status |-> 500, body |-> [detail |-> "DB pool error"]]]
    /\ pc' = [pc EXCEPT ![p] = "finally"]
    /\ before' = [before EXCEPT ![p] = Committed]
    /\ UNCHANGED <<tables, last_replace, cur, conn>>
\* POOL.getconn() raises: 500, the handler body never runs
GetConnFail(p, r) ==
    /\ Arrives(p)
    /\ now' = now + 1
    /\ req' = [req EXCEPT ![p] = r]
    /\ resp' = [resp EXCEPT ![p] = [status |-> 500, body |-> [detail |-> "DB pool error"]]]
    /\ pc' = [pc EXCEPT ![p] = "done"]
    /\ before' = [before EXCEPT ![p] = Committed]
    /\ UNCHANGED <<tables, last_replace, cur, conn>>

\* faulty variant of PutConn: put_conn swallows the failure of POOL.putconn
\* without closing, and the connection stays checked out
PutConnLeaks(p) ==
    /\ pc[p] = "finally"
    /\ pc' = [pc EXCEPT ![p] = "done"]
    /\ UNCHANGED <<tables, last_replace, before, now, req, resp, cur, conn>>
\* finally: cur.close(); put_conn(conn).  POOL.putconn rolls back a connection
\* whose transaction is still open, and put_conn closes it when putconn raises:
\* either way what the transaction had not committed is discarded.
PutConn(p) ==
    /\ pc[p] = "finally"
    /\ conn' = [conn EXCEPT ![p] = NoConn]
    /\ pc' = [pc EXCEPT ![p] = "done"]
    /\ UNCHANGED <<tables, last_replace, before, now, req, resp, cur>>

\* the response leaves the handler; the thread is free again
Responds(p) ==
    /\ pc[p] = "done"
    /\ req' = [req EXCEPT ![p] = NoReq]
    /\ resp' = [resp EXCEPT ![p] = NoResp]
    /\ cur' = [cur EXCEPT ![p] = NoCur]
    /\ pc' = [pc EXCEPT ![p] = "idle"]
    /\ before' = [before EXCEPT ![p] = NoTables]
    /\ UNCHANGED <<tables, last_replace, now, conn>>

(* ------------------------------------------------------------------ *)
(* Statements that write: targets, row locks, waiting                   *)
(* ------------------------------------------------------------------ *)
\* the rows an UPDATE or DELETE acts on: those its WHERE matched when it started
Targets(p) ==
    IF pc[p] = "blocked"
    THEN { r \in Table(TableOf(req[p].op)) : r.rid \in conn[p].snap }
    ELSE { r \in Table(TableOf(req[p].op)) : Matches(p, r) }

Locked(p) == \E r \in Targets(p) : r.rid \in LockedByOthers(p)

\* the first statement of a writing handler may run
CanWrite(p, op) ==
    /\ pc[p] \in {"try", "blocked"}
    /\ req[p].op = op
    /\ ~Locked(p)

\* the transaction psycopg2 opened on the handler's first execute()
InTrans(c, t) ==
    IF c.status = "idle" THEN [c EXCEPT !.status = "intrans", !.began = t] ELSE c

\* a target row is locked by another transaction: the statement waits for it
StatementWaits(p) ==
    /\ pc[p] = "try"
    /\ req[p].op \in WriteOps
    /\ Locked(p)
    /\ conn' = [conn EXCEPT ![p] =
                  [InTrans(@, now) EXCEPT !.snap = { r.rid : r \in Targets(p) }]]
    /\ pc' = [pc EXCEPT ![p] = "blocked"]
    /\ UNCHANGED <<tables, last_replace, before, now, req, resp, cur>>

\* the transaction's changes after a statement superseded `old` by `new`
Written(c, t, old, new) ==
    [InTrans(c, t) EXCEPT !.gone = @ \cup { r.rid : r \in old },
                          !.put = @ \cup new,
                          !.snap = {}]

\* the transaction's changes after an INSERT of `row`
Inserted(c, row) == [c EXCEPT !.ins = Append(@, row)]

(* ------------------------------------------------------------------ *)
(* update_operator, update_inspector                                    *)
(* ------------------------------------------------------------------ *)
\* faulty variant of OperatorSet: evidence is set whether or not it was supplied
OperatorSetNullsEvidence(r, b) ==
    [r EXCEPT !.status = Some(b.status),
              !.evidence = b.evidence_path,
              !.operator_feedback = Some(b.feedback)]

\* faulty variant of OperatorSet: the UPDATE also resets the inspector's verdict
OperatorSetResetsAcceptance(r, b) ==
    [r EXCEPT !.status = Some(b.status),
              !.evidence = IF b.evidence_path # None THEN b.evidence_path ELSE @,
              !.operator_feedback = Some(b.feedback),
              !.acceptance = None]
\* the row as the UPDATE of update_operator leaves it
OperatorSet(r, b) ==
    [r EXCEPT !.status = Some(b.status),
              !.evidence = IF b.evidence_path # None THEN b.evidence_path ELSE @,
              !.operator_feedback = Some(b.feedback)]

\* faulty variant of InspectorSet: a field the request omits keeps its stored value
InspectorSetKeeps(r, b) ==
    [r EXCEPT !.acceptance = IF IsSome(b.acceptance) THEN b.acceptance ELSE @,
              !.inspector_feedback = IF IsSome(b.feedback) THEN b.feedback ELSE @]

\* the row as the UPDATE of update_inspector leaves it
InspectorSet(r, b) ==
    [r EXCEPT !.acceptance = b.acceptance,
              !.inspector_feedback = b.feedback]

\* faulty variant of ItemUpdated: the handler without its rowcount check
ItemUpdatedNo404(p, new) ==
    /\ cur' = [cur EXCEPT ![p].rowcount = Cardinality(new)]
    /\ conn' = [conn EXCEPT ![p] = Written(@, now, Targets(p), new)]
    /\ resp' = resp
    /\ pc' = [pc EXCEPT ![p] = "commit"]
    /\ UNCHANGED <<tables, last_replace, before, now, req>>

\* after the UPDATE of an item handler: 404 when no row matched, else on to commit
ItemUpdated(p, new) ==
    /\ cur' = [cur EXCEPT ![p].rowcount = Cardinality(new)]
    /\ conn' = [conn EXCEPT ![p] = Written(@, now, Targets(p), new)]
    /\ IF new = {}
       THEN /\ resp' = [resp EXCEPT ![p] =
                          [status |-> 404, body |-> [detail |-> "Item not found"]]]
            /\ pc' = [pc EXCEPT ![p] = "finally"]
       ELSE /\ resp' = resp
            /\ pc' = [pc EXCEPT ![p] = "commit"]
    /\ UNCHANGED <<tables, last_replace, before, now, req>>

update_operator(p) ==
    /\ CanWrite(p, "update_operator")
    /\ ItemUpdated(p, { OperatorSet(r, req[p].body) : r \in Targets(p) })

\* faulty variant of update_inspector: a DELETE in place of the UPDATE
update_inspector_deletes(p) ==
    /\ CanWrite(p, "update_inspector")
    /\ cur' = [cur EXCEPT ![p].rowcount = Cardinality(Targets(p))]
    /\ conn' = [conn EXCEPT ![p] = Written(@, now, Targets(p), {})]
    /\ resp' = resp
    /\ pc' = [pc EXCEPT ![p] = "commit"]
    /\ UNCHANGED <<tables, last_replace, before, now, req>>
update_inspector(p) ==
    /\ CanWrite(p, "update_inspector")
    /\ ItemUpdated(p, { InspectorSet(r, req[p].body) : r \in Targets(p) })

(* ------------------------------------------------------------------ *)
(* upsert_cap                                                           *)
(* ------------------------------------------------------------------ *)
\* faulty variant of CapSet: the UPDATE without `updated_at = CURRENT_TIMESTAMP`
CapSetNoStamp(r, b, t) ==
    [r EXCEPT !.description = b.description,
              !.owner = b.owner,
              !.target_date = parse_ddmmyyyy(b.target_date)]

\* the row as the UPDATE of upsert_cap leaves it
CapSet(r, b, t) ==
    [r EXCEPT !.description = b.description,
              !.owner = b.owner,
              !.target_date = parse_ddmmyyyy(b.target_date),
              !.updated_at = Some(t)]

\* the row the INSERT of upsert_cap adds; updated_at is not among its columns
\* and takes the column's default, dflt
CapRow(c, n, b, dflt) ==
    [checklist_id |-> c, item_number |-> n,
     description |-> b.description, owner |-> b.owner,
     target_date |-> parse_ddmmyyyy(b.target_date),
     updated_at |-> dflt]

\* what the schema's default of caps.updated_at may give a row inserted by a
\* transaction that began at t: NULL, or DEFAULT CURRENT_TIMESTAMP
UpdatedAtDefaults(t) == {None, Some(t)}

\* UPDATE caps ...; on to the INSERT when cur.rowcount == 0
upsert_cap_update(p) ==
    /\ CanWrite(p, "upsert_cap")
    /\ LET c == InTrans(conn[p], now)
           new == { CapSet(r, req[p].body, c.began) : r \in Targets(p) }
       IN  /\ conn' = [conn EXCEPT ![p] = Written(c, now, Targets(p), new)]
           /\ cur' = [cur EXCEPT ![p].rowcount = Cardinality(new)]
           /\ pc' = [pc EXCEPT ![p] = IF new = {} THEN "insert" ELSE "commit"]
    /\ UNCHANGED <<tables, last_replace, before, now, req, resp>>

\* INSERT INTO caps ...
upsert_cap_insert(p) ==
    /\ pc[p] = "insert"
    /\ req[p].op = "upsert_cap"
    /\ \E dflt \in UpdatedAtDefaults(conn[p].began) :
          conn' = [conn EXCEPT ![p] =
                     Inserted(@, CapRow(req[p].checklist_id, req[p].number,
                                        req[p].body, dflt))]
    /\ cur' = [cur EXCEPT ![p].rowcount = 1]
    /\ pc' = [pc EXCEPT ![p] = "commit"]
    /\ UNCHANGED <<tables, last_replace, before, now, req, resp>>

(* ------------------------------------------------------------------ *)
(* replace_cap_steps                                                    *)
(* ------------------------------------------------------------------ *)
\* faulty variant of StepRow: the INSERT stores the caller's step_no
StepRowCallerNo(c, n, idx, s) ==
    [checklist_id |-> c, item_number |-> n,
     step_no |-> s.step_no, step_text |-> s.step_text,
     target_date |-> parse_ddmmyyyy(s.target_date)]

\* the row the idx-th INSERT of replace_cap_steps adds for item s
StepRow(c, n, idx, s) ==
    [checklist_id |-> c, item_number |-> n,
     step_no |-> idx, step_text |-> s.step_text,
     target_date |-> parse_ddmmyyyy(s.target_date)]

\* where the for loop stands once idx - 1 items are inserted
AfterInsert(idx, steps) == IF idx > Len(steps) THEN "commit" ELSE "insert"

\* faulty variant of replace_cap_steps_delete: the handler without its DELETE
replace_cap_steps_no_delete(p) ==
    /\ CanWrite(p, "replace_cap_steps")
    /\ conn' = [conn EXCEPT ![p] = Written(@, now, {}, {})]
    /\ cur' = [cur EXCEPT ![p] = [rowcount |-> 0, idx |-> 1]]
    /\ pc' = [pc EXCEPT ![p] = AfterInsert(1, req[p].body.steps)]
    /\ UNCHANGED <<tables, last_replace, before, now, req, resp>>

\* DELETE FROM cap_steps WHERE ...; then enumerate(body.steps, start=1)
replace_cap_steps_delete(p) ==
    /\ CanWrite(p, "replace_cap_steps")
    /\ conn' = [conn EXCEPT ![p] = Written(@, now, Targets(p), {})]
    /\ cur' = [cur EXCEPT ![p] = [rowcount |-> Cardinality(Targets(p)), idx |-> 1]]
    /\ pc' = [pc EXCEPT ![p] = AfterInsert(1, req[p].body.steps)]
    /\ UNCHANGED <<tables, last_replace, before, now, req, resp>>

\* one pass of the loop: INSERT INTO cap_steps ... VALUES (.., idx, s.step_text, d)
replace_cap_steps_insert(p) ==
    /\ pc[p] = "insert"
    /\ req[p].op = "replace_cap_steps"
    /\ LET idx == cur[p].idx
           row == StepRow(req[p].checklist_id, req[p].number,
                          idx, req[p].body.steps[idx])
       IN  /\ conn' = [conn EXCEPT ![p] = Inserted(@, row)]
           /\ cur' = [cur EXCEPT ![p] = [rowcount |-> 1, idx |-> idx + 1]]
           /\ pc' = [pc EXCEPT ![p] = AfterInsert(idx + 1, req[p].body.steps)]
    /\ UNCHANGED <<tables, last_replace, before, now, req, resp>>

(* ------------------------------------------------------------------ *)
(* conn.commit(), the except blocks, storage faults                     *)
(* ------------------------------------------------------------------ *)
\* the body of the 200 response
OkBody(r) ==
    IF r.op = "replace_cap_steps"
    THEN [ok |-> TRUE, count |-> Len(r.body.steps)]
    ELSE [ok |-> TRUE]

\* the connection once its transaction has ended
Ended(c) ==
    [c EXCEPT !.status = "idle", !.gone = {}, !.put = {}, !.ins = << >>, !.snap = {}]

\* conn.commit() and the return that follows it
Commit(p) ==
    /\ pc[p] = "commit"
    /\ LET t == TableOf(req[p].op)
       IN  /\ checklist_items' = IF t = "checklist_items"
                                 THEN Apply(checklist_items, p, conn[p])
                                 ELSE checklist_items
           /\ caps' = IF t = "caps" THEN Apply(caps, p, conn[p]) ELSE caps
           /\ cap_steps' = IF t = "cap_steps" THEN Apply(cap_steps, p, conn[p])
                           ELSE cap_steps
    /\ conn' = [conn EXCEPT ![p] = Ended(@)]
    /\ resp' = [resp EXCEPT ![p] = [status |-> 200, body |-> OkBody(req[p])]]
    /\ pc' = [pc EXCEPT ![p] = "finally"]
    /\ last_replace' =
          IF req[p].op = "replace_cap_steps"
          THEN [last_replace EXCEPT ![<<req[p].checklist_id, req[p].number>>] =
                   Len(req[p].body.steps)]
          ELSE last_replace
    /\ UNCHANGED <<before, now, req, cur>>

\* the transaction status a fault leaves: conn.cursor() raising opens no
\* transaction, a failed statement leaves the transaction aborted
FaultStatus(p) == IF pc[p] = "try" THEN {"idle", "inerror"} ELSE {"inerror"}

\* a storage fault: conn.cursor(), an execute() or conn.commit() raises in a
\* writing handler, which enters `except Exception`
WriteFault(p) ==
    /\ pc[p] \in {"try", "blocked", "insert", "commit"}
    /\ req[p].op \in WriteOps
    /\ \E st \in FaultStatus(p) :
          conn' = [conn EXCEPT ![p] = [@ EXCEPT !.status = st, !.snap = {}]]
    /\ pc' = [pc EXCEPT ![p] = "except"]
    /\ UNCHANGED <<tables, last_replace, before, now, req, resp, cur>>

\* faulty variant of Rollback: the except block commits what the transaction wrote
RollbackKeepsWrites(p) ==
    /\ pc[p] = "except"
    /\ LET t == TableOf(req[p].op)
       IN  /\ checklist_items' = IF t = "checklist_items"
                                 THEN Apply(checklist_items, p, conn[p])
                                 ELSE checklist_items
           /\ caps' = IF t = "caps" THEN Apply(caps, p, conn[p]) ELSE caps
           /\ cap_steps' = IF t = "cap_steps" THEN Apply(cap_steps, p, conn[p])
                           ELSE cap_steps
    /\ conn' = [conn EXCEPT ![p] = Ended(@)]
    /\ resp' = [resp EXCEPT ![p] = [status |-> 500, body |-> [detail |-> "error"]]]
    /\ pc' = [pc EXCEPT ![p] = "finally"]
    /\ UNCHANGED <<last_replace, before, now, req, cur>>

\* except Exception: conn.rollback(); raise HTTPException(500)
Rollback(p) ==
    /\ pc[p] = "except"
    /\ conn' = [conn EXCEPT ![p] = Ended(@)]
    /\ resp' = [resp EXCEPT ![p] = [status |-> 500, body |-> [detail |-> "error"]]]
    /\ pc' = [pc EXCEPT ![p] = "finally"]
    /\ UNCHANGED <<tables, last_replace, before, now, req, cur>>

\* conn.rollback() itself raises: the exception leaves the handler, still a 500
RollbackFails(p) ==
    /\ pc[p] = "except"
    /\ resp' = [resp EXCEPT ![p] = [status |-> 500, body |-> [detail |-> "error"]]]
    /\ pc' = [pc EXCEPT ![p] = "finally"]
    /\ UNCHANGED <<tables, last_replace, before, now, req, cur, conn>>

(* ------------------------------------------------------------------ *)
(* The read handlers                                                    *)
(* ------------------------------------------------------------------ *)
OrderKey(r, t) == IF t = "checklist_items" THEN r.number ELSE r.step_no

\* the orders ORDER BY ... ASC may return the rows in (ties in any order)
RECURSIVE Ordered(_, _)
Ordered(S, t) ==
    IF S = {} THEN { << >> }
    ELSE LET least == { r \in S : \A x \in S : OrderKey(r, t) <= OrderKey(x, t) }
         IN  UNION { { <<r>> \o q : q \in Ordered(S \ {r}, t) } : r \in least }

ItemColumns(r) ==
    [number |-> r.number, reference |-> r.reference, question |-> r.question,
     status |-> r.status, evidence |-> r.evidence,
     operator_feedback |-> r.operator_feedback, acceptance |-> r.acceptance,
     inspector_feedback |-> r.inspector_feedback]
CapColumns(r) ==
    [description |-> r.description, owner |-> r.owner, target_date |-> r.target_date]
StepColumns(r) ==
    [step_no |-> r.step_no, step_text |-> r.step_text, target_date |-> r.target_date]

\* faulty variant of MaxDate: MIN in place of MAX
MinDate(ds) ==
    LET some == { d \in ds : IsSome(d) }
    IN  IF some = {} THEN None
        ELSE CHOOSE d \in some : \A e \in some : ~DateLess(Val(e), Val(d))

\* SQL MAX over optional dates: NULLs do not count, no date at all gives NULL
MaxDate(ds) ==
    LET some == { d \in ds : IsSome(d) }
    IN  IF some = {} THEN None
        ELSE CHOOSE d \in some : \A e \in some : ~DateLess(Val(d), Val(e))

\* a read handler returns `body`: its SELECT opened a transaction it never ends
Returns(p, body) ==
    /\ resp' = [resp EXCEPT ![p] = [status |-> 200, body |-> body]]
    /\ conn' = [conn EXCEPT ![p] = InTrans(@, now)]
    /\ pc' = [pc EXCEPT ![p] = "finally"]
    /\ UNCHANGED <<tables, last_replace, before, now, req, cur>>

Reads(p, op) == pc[p] = "try" /\ req[p].op = op

get_checklist_items(p) ==
    /\ Reads(p, "get_checklist_items")
    /\ \E rows \in Ordered({ r \in checklist_items :
                               r.checklist_id = req[p].checklist_id },
                           "checklist_items") :
          Returns(p, [i \in 1..Len(rows) |-> ItemColumns(rows[i])])

\* fetchone(): `row or {}`
get_cap(p) ==
    /\ Reads(p, "get_cap")
    /\ IF Targets(p) = {}
       THEN Returns(p, None)
       ELSE \E r \in Targets(p) : Returns(p, Some(CapColumns(r)))

get_cap_steps(p) ==
    /\ Reads(p, "get_cap_steps")
    /\ \E rows \in Ordered(Targets(p), "cap_steps") :
          Returns(p, [i \in 1..Len(rows) |-> StepColumns(rows[i])])

\* d.isoformat() if d else None
FinalDate(rows) ==
    LET d == MaxDate({ r.target_date : r \in rows })
    IN  IF IsSome(d) THEN Some(isoformat(Val(d))) ELSE None

compute_cap_final_date(p) ==
    /\ Reads(p, "compute_cap_final_date")
    /\ Returns(p, [final_date |-> FinalDate(Targets(p))])

\* conn.cursor() or the SELECT raises in a read handler: 500, nothing rolled back
ReadFault(p) ==
    /\ pc[p] = "try"
    /\ req[p].op \in ReadOps
    /\ \E st \in FaultStatus(p) :
          conn' = [conn EXCEPT ![p].status = st]
    /\ resp' = [resp EXCEPT ![p] = [status |-> 500, body |-> [detail |-> "error"]]]
    /\ pc' = [pc EXCEPT ![p] = "finally"]
    /\ UNCHANGED <<tables, last_replace, before, now, req, cur>>

(* ------------------------------------------------------------------ *)
(* Specifications                                                       *)
(* ------------------------------------------------------------------ *)
Step_a == [step_no |-> 99, step_text |-> "a", target_date |-> Some(Text_05_01_2024)]
Step_b == [step_no |-> 1, step_text |-> "b", target_date |-> None]
Cap_d1 == [description |-> "d1", owner |-> None, target_date |-> Some(Text_05_01_2024)]
Cap_d2 == [description |-> "d2", owner |-> Some("o1"),
           target_date |-> Some(Text_31_02_2024)]

\* requests of the concurrent runs: writers of one CAP and of its steps
ConcRequests ==
    { Req("upsert_cap", 1, 1, Cap_d1),
      Req("upsert_cap", 1, 1, Cap_d2),
      Req("replace_cap_steps", 1, 1, [steps |-> << >>]),
      Req("replace_cap_steps", 1, 1, [steps |-> <<Step_a>>]),
      Req("replace_cap_steps", 1, 1, [steps |-> <<Step_b, Step_a>>]) }

\* the steps of the handlers that write caps and cap_steps
WritesCap(p) ==
    \/ upsert_cap_update(p)
    \/ upsert_cap_insert(p)
    \/ replace_cap_steps_delete(p)
    \/ replace_cap_steps_insert(p)
    \/ Commit(p)
    \/ WriteFault(p)
    \/ Rollback(p)
    \/ RollbackFails(p)
    \/ PutConn(p)
    \/ Responds(p)

\* the steps of the handlers of checklist items and of the read handlers
HandlesRest(p) ==
    \/ update_operator(p)
    \/ update_inspector(p)
    \/ get_checklist_items(p)
    \/ get_cap(p)
    \/ get_cap_steps(p)
    \/ compute_cap_final_date(p)
    \/ ReadFault(p)

\* CAP writes arrive at any time and are served by concurrent handler threads
Next ==
    \E p \in Handlers :
        \/ \E r \in ConcRequests : GetConn(p, r) \/ GetConnFail(p, r)
        \/ StatementWaits(p)
        \/ WritesCap(p)

\* the concurrent runs start with or without a CAP and a step stored for the
\* item by earlier requests
ConcInit ==
    /\ checklist_items = SeedItems
    /\ caps \in { {}, { [rid |-> 1] @@ CapRow(1, 1, Cap_d1, None) } }
    /\ cap_steps \in { {}, { [rid |-> 1] @@ StepRow(1, 1, 1, Step_a) } }
    /\ now = 0
    /\ pc = [p \in Handlers |-> "idle"]
    /\ req = [p \in Handlers |-> NoReq]
    /\ resp = [p \in Handlers |-> NoResp]
    /\ cur = [p \in Handlers |-> NoCur]
    /\ conn = [p \in Handlers |-> NoConn]
    /\ before = [p \in Handlers |-> NoTables]
    /\ last_replace = [k \in Keys |->
                          Cardinality({ r \in cap_steps : r.checklist_id = k[1]
                                                          /\ r.item_number = k[2] })]

Spec == ConcInit /\ [][Next]_vars

\* one client, every operation: each request arrives when the one before has
\* been answered
SeqNext ==
    \/ \E r \in SeqRequests : GetConn(1, r) \/ GetConnFail(1, r)
    \/ WritesCap(1)
    \/ HandlesRest(1)

SeqSpec == Init /\ [][SeqNext]_vars

\* date texts put together from a day, a month and a year part and a separator,
\* and two texts of no such shape
DayTexts == { <<"0", "1">>, <<"1">>, <<" ", "1">>, <<"3", "1">>, <<"2", "9">>,
              <<"0", "0">>, <<"3", "2">> }
MonthTexts == { <<"0", "3">>, <<"3">>, <<"0", "2">>, <<"1", "3">>, <<"1", "2">> }
YearTexts == { <<"2", "0", "2", "4">>, <<"2", "0", "2", "3">>, <<"0", "0", "0", "0">>,
               <<"2", "4">>, <<"2", "0", "2", "4", "5">> }
Separators == { ".", "-" }
DateTexts ==
    { d \o <<sep>> \o m \o <<sep>> \o y :
        d \in DayTexts, m \in MonthTexts, y \in YearTexts, sep \in Separators }
    \cup { << >>, <<"x">> }
\* target_date: Optional[str]
DateInputs == { None } \cup { Some(t) : t \in DateTexts }
\* requests that carry one date text each: a CAP, or a list of one step
DateRequests ==
    { Req("upsert_cap", 1, 1, [description |-> "d1", owner |-> Some("o1"),
                               target_date |-> t]) : t \in DateInputs }
    \cup { Req("replace_cap_steps", 1, 1,
                [steps |-> << [step_no |-> 1, step_text |-> "a", target_date |-> t] >>]) :
             t \in DateInputs }
\* one client writes CAPs and steps with any of the date texts; the store
\* raises no fault
DateNext ==
    \/ \E r \in DateRequests : GetConn(1, r)
    \/ upsert_cap_update(1)
    \/ upsert_cap_insert(1)
    \/ replace_cap_steps_delete(1)
    \/ replace_cap_steps_insert(1)
    \/ Commit(1)
    \/ PutConn(1)
    \/ Responds(1)
DateSpec == Init /\ [][DateNext]_vars

(* ------------------------------------------------------------------ *)
(* Properties                                                           *)
(* ------------------------------------------------------------------ *)
ItemsOf(t, c, n) == { r \in t : r.checklist_id = c /\ r.number = n }
CapsOf(t, c, n) == { r \in t : r.checklist_id = c /\ r.item_number = n }
StepsOf(t, c, n) == { r \in t : r.checklist_id = c /\ r.item_number = n }
StepsShown(rows) == { StepColumns(r) : r \in rows }

\* handler p has produced the response `status` to a request `op`
Answered(p, op, status) ==
    /\ pc[p] \in {"finally", "done"}
    /\ req[p].op = op
    /\ resp[p].status = status

\* C1: in every reachable state there is at most one Cap row per
\* (checklist_id, item_number), whatever the interleaving of upsert_cap calls.
C1_AtMostOneCapPerKey ==
    \A n \in Numbers : Cardinality(CapsOf(caps, 1, n)) <= 1

\* C2: for sequential calls, a successful upsert_cap leaves exactly one row for
\* the key, holding the supplied description and owner and the parsed
\* target_date; when the key already had a row (update path) updated_at is set
\* and is later than the value the row held, and when it had none (insert path)
\* updated_at is only what the column default gives.
C2_UpsertCreatesThenUpdates ==
    \A p \in Handlers :
        Answered(p, "upsert_cap", 200) =>
            LET old == CapsOf(before[p].caps, req[p].checklist_id, req[p].number)
                new == CapsOf(caps, req[p].checklist_id, req[p].number)
                b == req[p].body
            IN  /\ Cardinality(new) = 1
                /\ \A r \in new :
                      /\ r.description = b.description
                      /\ r.owner = b.owner
                      /\ r.target_date = parse_ddmmyyyy(b.target_date)
                      /\ old # {} =>
                            /\ IsSome(r.updated_at)
                            /\ \A o \in old :
                                  \/ o.updated_at = None
                                  \/ Val(o.updated_at) < Val(r.updated_at)
                      /\ old = {} =>
                            \/ r.updated_at = None
                            \/ Val(r.updated_at) <= now

\* C2 witness: a second upsert has overwritten the row a first one created and
\* moved its updated_at forward.
C2_Witness ==
    \E p \in Handlers :
        /\ Answered(p, "upsert_cap", 200)
        /\ \E o \in CapsOf(before[p].caps, 1, 1), r \in CapsOf(caps, 1, 1) :
              /\ IsSome(o.updated_at)
              /\ IsSome(r.updated_at)
              /\ Val(o.updated_at) < Val(r.updated_at)
              /\ o.description # r.description

\* C3: after a successful replace_cap_steps with a list of length N, whatever
\* the key held before, the key's steps are exactly N rows, row i holding
\* step_no i and the text and parsed date of the i-th item (the caller's
\* step_no is ignored), and the reported count is N; an empty list leaves none.
C3_ReplaceStoresInputOrder ==
    \A p \in Handlers :
        Answered(p, "replace_cap_steps", 200) =>
            LET L == req[p].body.steps
                rows == StepsOf(cap_steps, req[p].checklist_id, req[p].number)
            IN  /\ Cardinality(rows) = Len(L)
                /\ \A i \in 1..Len(L) :
                      \E r \in rows :
                          /\ r.step_no = i
                          /\ r.step_text = L[i].step_text
                          /\ r.target_date = parse_ddmmyyyy(L[i].target_date)
                /\ resp[p].body.count = Len(L)

\* C3 witness: a key that held steps was given a list whose first item was
\* sent with step_no 99, and that item is now stored as step 1.
C3_Witness ==
    \E p \in Handlers :
        /\ Answered(p, "replace_cap_steps", 200)
        /\ StepsOf(before[p].cap_steps, 1, 1) # {}
        /\ Len(req[p].body.steps) >= 2
        /\ req[p].body.steps[1].step_no = 99
        /\ \E r \in StepsOf(cap_steps, 1, 1) : r.step_no = 1 /\ r.step_text = "a"

\* C4: replace_cap_steps is all or nothing: when the DELETE or an INSERT has
\* failed, the key's committed steps are those it held before the call, and the
\* call answers 500.
C4_ReplaceAllOrNothing ==
    \A p \in Handlers :
        (/\ pc[p] \in {"except", "finally", "done"}
         /\ req[p].op = "replace_cap_steps"
         /\ resp[p].status # 200) =>
            /\ StepsOf(cap_steps, req[p].checklist_id, req[p].number)
                 = StepsOf(before[p].cap_steps, req[p].checklist_id, req[p].number)
            /\ pc[p] # "except" => resp[p].status = 500

\* C4 witness: a call on a key that held steps failed after its DELETE and its
\* first INSERT, with more items to insert, and has answered 500.
C4_Witness ==
    \E p \in Handlers :
        /\ Answered(p, "replace_cap_steps", 500)
        /\ StepsOf(before[p].cap_steps, 1, 1) # {}
        /\ cur[p].idx = 2
        /\ Len(req[p].body.steps) = 3

\* C5: in every committed state the step_no values stored for a key are exactly
\* 1..N, without gaps or duplicates, N being the length of the list of the
\* replace_cap_steps call that committed last, also under concurrent calls on
\* the key: the step sets of two calls are never merged.
C5_StepNumbersDense ==
    \A k \in Keys :
        LET rows == StepsOf(cap_steps, k[1], k[2])
        IN  /\ Cardinality(rows) = last_replace[k]
            /\ { r.step_no : r \in rows } = 1..last_replace[k]

\* C6: replace_cap_steps is idempotent: called with list L on a key whose steps
\* are those a call with L leaves, it leaves the same steps again and reports
\* count Len(L).
C6_ReplaceIdempotent ==
    \A p \in Handlers :
        LET L == req[p].body.steps
            was == StepsOf(before[p].cap_steps, req[p].checklist_id, req[p].number)
            is == StepsOf(cap_steps, req[p].checklist_id, req[p].number)
            left == { [step_no |-> i, step_text |-> L[i].step_text,
                       target_date |-> parse_ddmmyyyy(L[i].target_date)] :
                      i \in 1..Len(L) }
        IN  (/\ Answered(p, "replace_cap_steps", 200)
             /\ StepsShown(was) = left
             /\ Cardinality(was) = Len(L)) =>
                /\ StepsShown(is) = StepsShown(was)
                /\ Cardinality(is) = Cardinality(was)
                /\ resp[p].body.count = Len(L)

\* C6 witness: the second of two calls with the same list of two or more items
\* has been answered.
C6_Witness ==
    \E p \in Handlers :
        /\ Answered(p, "replace_cap_steps", 200)
        /\ Len(req[p].body.steps) >= 2
        /\ Cardinality(StepsOf(before[p].cap_steps, 1, 1)) = Len(req[p].body.steps)
        /\ StepsShown(StepsOf(before[p].cap_steps, 1, 1))
             = { [step_no |-> i, step_text |-> req[p].body.steps[i].step_text,
                  target_date |-> parse_ddmmyyyy(req[p].body.steps[i].target_date)] :
                 i \in 1..Len(req[p].body.steps) }

\* C7: a successful update_operator has overwritten status and
\* operator_feedback with the supplied values; it has overwritten evidence when
\* evidence_path was supplied, and left the stored evidence as it was when
\* evidence_path was omitted.
C7_OperatorPartialUpdate ==
    \A p \in Handlers :
        Answered(p, "update_operator", 200) =>
            LET b == req[p].body
                was == ItemsOf(before[p].checklist_items,
                               req[p].checklist_id, req[p].number)
                is == ItemsOf(checklist_items, req[p].checklist_id, req[p].number)
            IN  /\ is # {}
                /\ \A r \in is :
                      /\ r.status = Some(b.status)
                      /\ r.operator_feedback = Some(b.feedback)
                      /\ IsSome(b.evidence_path) => r.evidence = b.evidence_path
                      /\ ~IsSome(b.evidence_path) =>
                            \E o \in was : o.rid = r.rid /\ r.evidence = o.evidence

\* C7 witness: an update without evidence_path has been answered on an item
\* whose evidence an earlier update had stored; status and feedback are the new
\* ones and the evidence is still there.
C7_Witness ==
    \E p \in Handlers :
        /\ Answered(p, "update_operator", 200)
        /\ req[p].body.evidence_path = None
        /\ \E o \in ItemsOf(before[p].checklist_items, 1, 1),
              r \in ItemsOf(checklist_items, 1, 1) :
              /\ o.evidence = Some("e1")
              /\ r.evidence = Some("e1")
              /\ r.status = Some("s1")

\* C8: update_operator and update_inspector on a (checklist_id, number) that
\* matches no item answer 404 (500 only when the storage failed), create or
\* change no row and leave nothing to commit.
C8_NotFoundWritesNothing ==
    \A p \in Handlers :
        (/\ pc[p] \in {"finally", "done"}
         /\ req[p].op \in {"update_operator", "update_inspector"}
         /\ ItemsOf(before[p].checklist_items, req[p].checklist_id, req[p].number)
              = {}) =>
            /\ resp[p].status \in {404, 500}
            /\ (pc[p] = "finally" /\ conn[p].status = "intrans") =>
                    resp[p].status = 404
            /\ Committed = before[p]
            /\ conn[p].gone = {} /\ conn[p].put = {} /\ conn[p].ins = << >>

\* C8 witness: update_operator on item 2, which does not exist, has answered 404.
C8_Witness ==
    \E p \in Handlers :
        /\ Answered(p, "update_operator", 404)
        /\ req[p].number = 2
        /\ ItemsOf(checklist_items, 1, 2) = {}

\* C9: a successful update_inspector has set acceptance and inspector_feedback
\* to what the request supplied, no value for a field the request omitted;
\* nothing of what was stored in them stays.
C9_InspectorOverwritesBoth ==
    \A p \in Handlers :
        Answered(p, "update_inspector", 200) =>
            LET is == ItemsOf(checklist_items, req[p].checklist_id, req[p].number)
            IN  /\ is # {}
                /\ \A r \in is :
                      /\ r.acceptance = req[p].body.acceptance
                      /\ r.inspector_feedback = req[p].body.feedback

\* C9 witness: a request that supplied an acceptance but no feedback has been
\* answered on an item that had a feedback stored, and the feedback is gone.
C9_Witness ==
    \E p \in Handlers :
        /\ Answered(p, "update_inspector", 200)
        /\ req[p].body.feedback = None
        /\ IsSome(req[p].body.acceptance)
        /\ \E o \in ItemsOf(before[p].checklist_items, 1, 1),
              r \in ItemsOf(checklist_items, 1, 1) :
              /\ IsSome(o.inspector_feedback)
              /\ r.inspector_feedback = None
              /\ r.acceptance = Some("a1")

\* C10: compute_cap_final_date answers the latest target_date among the key's
\* steps, steps without a date not counting, and answers no date, with status
\* 200, when the key has no step or none of its steps has a date.
C10_FinalDateIsMax ==
    \A p \in Handlers :
        (pc[p] \in {"finally", "done"} /\ req[p].op = "compute_cap_final_date"
         /\ resp[p].status # 500) =>
            LET rows == StepsOf(cap_steps, req[p].checklist_id, req[p].number)
                dates == { Val(r.target_date) :
                             r \in { x \in rows : IsSome(x.target_date) } }
                got == resp[p].body.final_date
            IN  /\ resp[p].status = 200
                /\ dates = {} => got = None
                /\ dates # {} =>
                      \E d \in dates :
                          /\ got = Some(isoformat(d))
                          /\ \A e \in dates : e = d \/ DateLess(e, d)

\* C10 witness: the key has steps dated 05.01.2024 and 20.01.2024 and one
\* without a date, and the answer is 2024-01-20.
C10_Witness ==
    \E p \in Handlers :
        /\ Answered(p, "compute_cap_final_date", 200)
        /\ { r.target_date : r \in StepsOf(cap_steps, 1, 1) }
             = { None, Some(<<2024, 1, 5>>), Some(<<2024, 1, 20>>) }
        /\ resp[p].body.final_date
             = Some(<<"2", "0", "2", "4", "-", "0", "1", "-", "2", "0">>)


\* the text is DD.MM.YYYY: two digits, a dot, two digits, a dot, four digits
IsDDMMYYYY(t) ==
    /\ Len(t) = 10
    /\ t[3] = "." /\ t[6] = "."
    /\ \A i \in {1, 2, 4, 5, 7, 8, 9, 10} : t[i] \in Digits
\* the date an optional text names when it is DD.MM.YYYY and a calendar date
ExactDate(s) ==
    IF IsSome(s) /\ IsDDMMYYYY(Val(s))
    THEN LET t == Val(s)
             d == ToInt(SubSeq(t, 1, 2))
             m == ToInt(SubSeq(t, 4, 5))
             y == ToInt(SubSeq(t, 7, 10))
         IN  IF ValidDate(y, m, d) THEN Some(<<y, m, d>>) ELSE None
    ELSE None
\* the date texts of the request handler p serves, in order
TextsOf(p) ==
    IF req[p].op = "upsert_cap" THEN << req[p].body.target_date >>
    ELSE [i \in 1..Len(req[p].body.steps) |-> req[p].body.steps[i].target_date]

\* C11: _parse_ddmmyyyy gives a date only for a text that is exactly
\* DD.MM.YYYY (two-digit day, two-digit month, four-digit year) and names a
\* calendar date, and gives no date for every other text, a one-digit day or
\* month, an impossible date, an empty or absent text included: each row a
\* handler is about to insert holds that date or none.
C11_ParseExactPattern ==
    \A p \in Handlers :
        /\ \A i \in 1..Len(conn[p].ins) :
              conn[p].ins[i].target_date = ExactDate(TextsOf(p)[i])
        /\ \A r \in conn[p].put :
              r.target_date = ExactDate(TextsOf(p)[1])

\* C12: a malformed or absent date text never aborts a write: upsert_cap and
\* replace_cap_steps answer 200 and have committed, with no target_date for
\* the CAP or step whose text is absent or not a DD.MM.YYYY calendar date, and
\* with every other supplied field stored.
C12_MalformedDateNeverAborts ==
    \A p \in Handlers :
        (pc[p] \in {"finally", "done"}
         /\ req[p].op \in {"upsert_cap", "replace_cap_steps"}) =>
            /\ resp[p].status = 200
            /\ req[p].op = "upsert_cap" =>
                  LET b == req[p].body
                      rows == CapsOf(caps, req[p].checklist_id, req[p].number)
                  IN  /\ rows # {}
                      /\ \A r \in rows :
                            /\ r.description = b.description
                            /\ r.owner = b.owner
                            /\ ExactDate(b.target_date) = None => r.target_date = None
            /\ req[p].op = "replace_cap_steps" =>
                  LET L == req[p].body.steps
                      rows == StepsOf(cap_steps, req[p].checklist_id, req[p].number)
                  IN  \A i \in 1..Len(L) :
                          \E r \in rows :
                              /\ r.step_no = i
                              /\ r.step_text = L[i].step_text
                              /\ ExactDate(L[i].target_date) = None
                                    => r.target_date = None

\* C13: in every mutating handler, every exception raised once the connection
\* is held, the 404 of an item update that matched no row included, makes the
\* handler roll the transaction back before the error leaves it and before the
\* connection is released: a mutating handler reaches its finally block with
\* a failure only from its except block, where conn.rollback() is called.
C13_FailureRollsBack ==
    [][\A p \in Handlers :
          (/\ req[p].op \in WriteOps
           /\ conn[p].held
           /\ pc[p] # "finally"
           /\ pc'[p] = "finally"
           /\ resp'[p].status # 200) => pc[p] = "except"]_vars

\* C14: every request that holds a connection has ended its transaction, by a
\* commit or a rollback, when it releases the connection, the read handlers
\* as well as the mutating ones: no handler enters its finally block, where
\* the connection is released, with a transaction open.
C14_TransactionEndedAtRelease ==
    \A p \in Handlers :
        pc[p] = "finally" => conn[p].status = "idle"

InBody == {"try", "blocked", "insert", "commit", "except", "finally"}

\* C15: no connection leaks: on every path of every handler the connection
\* taken from the pool is held while the handler's body runs and is released,
\* once, when the handler leaves its finally block; a handler that has
\* answered or is idle holds none, so that no connection is held once all
\* requests have completed.
C15_NoConnectionLeak ==
    /\ \A p \in Handlers :
          /\ pc[p] \in InBody => conn[p].held
          /\ pc[p] \in {"idle", "done"} => conn[p] = NoConn
    /\ (\A p \in Handlers : pc[p] \in {"idle", "done"})
          => Cardinality({ p \in Handlers : conn[p].held }) = 0
\* C15 witness: a mutating handler whose statement failed has answered 500 and
\* holds no connection.
C15_Witness ==
    \E p \in Handlers :
        /\ pc[p] = "done"
        /\ req[p].op \in WriteOps
        /\ resp[p].status = 500
        /\ resp[p].body.detail # "DB pool error"
        /\ ~conn[p].held

\* C16: no operation creates or deletes a row of checklist_items: in every
\* reachable state the table holds one row for each (checklist_id, number) it
\* was seeded with and no other.
C16_ItemKeysFixed ==
    /\ { <<r.checklist_id, r.number>> : r \in checklist_items }
         = { <<r.checklist_id, r.number>> : r \in SeedItems }
    /\ Cardinality(checklist_items) = Cardinality(SeedItems)
\* C16 witness: both an operator and an inspector update have changed item 1.
C16_Witness ==
    \E r \in ItemsOf(checklist_items, 1, 1) :
        /\ r.status = Some("s1")
        /\ r.acceptance = Some("a1")

\* C17: update_operator leaves acceptance and inspector_feedback of every item
\* as they were, update_inspector leaves status, evidence and operator_feedback
\* of every item as they were, and neither changes number, reference or
\* question of an item nor anything of an item other than the one addressed.
C17_FieldGroupsDisjoint ==
    \A p \in Handlers :
        (pc[p] \in {"finally", "done"}
         /\ req[p].op \in {"update_operator", "update_inspector"}) =>
            \A r \in checklist_items :
                \E o \in before[p].checklist_items :
                    /\ o.rid = r.rid
                    /\ o.checklist_id = r.checklist_id
                    /\ o.number = r.number
                    /\ o.reference = r.reference
                    /\ o.question = r.question
                    /\ req[p].op = "update_operator" =>
                          /\ o.acceptance = r.acceptance
                          /\ o.inspector_feedback = r.inspector_feedback
                    /\ req[p].op = "update_inspector" =>
                          /\ o.status = r.status
                          /\ o.evidence = r.evidence
                          /\ o.operator_feedback = r.operator_feedback
                    /\ (r.checklist_id # req[p].checklist_id
                        \/ r.number # req[p].number) => o = r
\* C17 witness: an operator update has been answered on item 1, whose
\* acceptance an inspector had set before; the acceptance is still there and
\* item 3 is as it was seeded.
C17_Witness ==
    \E p \in Handlers :
        /\ Answered(p, "update_operator", 200)
        /\ \E r \in ItemsOf(checklist_items, 1, 1) :
              r.status = Some("s1") /\ r.acceptance = Some("a1")
        /\ ItemsOf(checklist_items, 1, 3) = ItemsOf(SeedItems, 1, 3)
        /\ ItemsOf(SeedItems, 1, 3) # {}

\* C18: every CapStep belongs to a Cap: in every reachable state each
\* (checklist_id, item_number) that has rows in cap_steps has a row in caps,
\* also when replace_cap_steps is called on a key upsert_cap was never called
\* for.
C18_StepsHaveCap ==
    \A k \in Keys :
        StepsOf(cap_steps, k[1], k[2]) # {} => CapsOf(caps, k[1], k[2]) # {}

\* the handler's response is the failure of get_conn
PoolError(p) == resp[p].status = 500 /\ resp[p].body.detail = "DB pool error"

\* C19: when the pool supplies no connection the handler answers 500 at once:
\* it has answered without a second attempt, has run no statement on the
\* store, and holds, releases and closes no connection.
C19_PoolFailureSurfacesAtOnce ==
    \A p \in Handlers :
        PoolError(p) =>
            /\ pc[p] = "done"
            /\ conn[p] = NoConn
            /\ cur[p] = NoCur
            /\ Committed = before[p]
\* C19 witness: a replace_cap_steps request carrying steps was refused by the
\* pool, and the key holds no step.
C19_Witness ==
    \E p \in Handlers :
        /\ PoolError(p)
        /\ req[p].op = "replace_cap_steps"
        /\ Len(req[p].body.steps) >= 1
        /\ StepsOf(cap_steps, req[p].checklist_id, req[p].number) = {}

\* the rows of table t of the keys other than (c, n)
OtherKeys(t, c, n) == { r \in t : r.checklist_id # c \/ r.item_number # n }

\* C20: upsert_cap and replace_cap_steps addressed to a key leave the Cap rows
\* and the CapStep rows of every other key as they were and leave
\* checklist_items as it was; upsert_cap leaves cap_steps as it was and
\* replace_cap_steps leaves caps as it was; the read handlers leave the whole
\* store as it was.
C20_KeyIsolation ==
    \A p \in Handlers :
        pc[p] \in {"finally", "done"} =>
            LET c == req[p].checklist_id
                n == req[p].number
            IN  /\ req[p].op = "upsert_cap" =>
                      /\ checklist_items = before[p].checklist_items
                      /\ cap_steps = before[p].cap_steps
                      /\ OtherKeys(caps, c, n) = OtherKeys(before[p].caps, c, n)
                /\ req[p].op = "replace_cap_steps" =>
                      /\ checklist_items = before[p].checklist_items
                      /\ caps = before[p].caps
                      /\ OtherKeys(cap_steps, c, n) = OtherKeys(before[p].cap_steps, c, n)
                /\ req[p].op \in ReadOps => Committed = before[p]
\* C20 witness: upsert_cap has created the Cap of key (1, 1) while key (1, 2)
\* had a Cap, which is as it was.
C20_Witness ==
    \E p \in Handlers :
        /\ Answered(p, "upsert_cap", 200)
        /\ req[p].number = 1
        /\ CapsOf(before[p].caps, 1, 1) = {}
        /\ CapsOf(caps, 1, 1) # {}
        /\ CapsOf(caps, 1, 2) # {}
        /\ CapsOf(caps, 1, 2) = CapsOf(before[p].caps, 1, 2)
====
